---- MODULE Spec2Model ----
(***************************************************************************)
(* Model of the stream editor of src/examples/sed.py: the script compiler  *)
(* (PySedCore_parse_script, parse_addresses, parse_substitute), the        *)
(* addressing (parse_address, matches_command), the command interpreter    *)
(* (execute_command), the line cycle of the generator PySedCore_process    *)
(* and the in-place path (process_in_place, backup_file) driven by         *)
(* PySedCore_main.                                                         *)
(*                                                                         *)
(* Text (a Python str) is a sequence of one-character strings, so that the *)
(* parsing and the substitution are computed character by character as the *)
(* source computes them.  An Optional value is a sequence of length 0      *)
(* (None) or 1.  Regular expressions of scripts are literal texts (the     *)
(* scripts of the model use no regex metacharacter): re.match is a prefix  *)
(* test and re.sub replaces non-overlapping occurrences left to right.     *)
(* options.null_data is False throughout.                                  *)
(***************************************************************************)
EXTENDS Integers, Sequences, FiniteSets, TLC

\* ------------------------------------------------------------------------
\* Python values and str methods used by the source
\* ------------------------------------------------------------------------
None == << >>
Some(x) == << x >>

NL == "\n"
Digits == {"0", "1", "2", "3", "4", "5", "6", "7", "8", "9"}
LowerLetters ==
  {"a", "b", "c", "d", "e", "f", "g", "h", "i", "j", "k", "l", "m",
   "n", "o", "p", "q", "r", "s", "t", "u", "v", "w", "x", "y", "z"}
Whitespace == {" ", "\t", "\n", "\r"}

\* c in s
str_contains(s, c) == \E i \in 1..Len(s) : s[i] = c

\* s.find(c) + 1: position of the first c in s, 0 when absent
str_find(s, c) ==
  IF str_contains(s, c)
  THEN CHOOSE i \in 1..Len(s) : s[i] = c /\ \A j \in 1..(i - 1) : s[j] # c
  ELSE 0

\* s.split(c, 1) for c in s
str_split1(s, c) ==
  LET i == str_find(s, c)
  IN  << SubSeq(s, 1, i - 1), SubSeq(s, i + 1, Len(s)) >>

\* s.split(c)
RECURSIVE str_split(_, _)
str_split(s, c) ==
  IF str_contains(s, c)
  THEN << str_split1(s, c)[1] >> \o str_split(str_split1(s, c)[2], c)
  ELSE << s >>

\* s.startswith(p)
str_startswith(s, p) == Len(p) <= Len(s) /\ SubSeq(s, 1, Len(p)) = p

\* s.rstrip(chars)
RECURSIVE str_rstrip(_, _)
str_rstrip(s, chars) ==
  IF s # << >> /\ s[Len(s)] \in chars
  THEN str_rstrip(SubSeq(s, 1, Len(s) - 1), chars)
  ELSE s

\* s.lstrip()
RECURSIVE str_lstrip(_)
str_lstrip(s) ==
  IF s # << >> /\ Head(s) \in Whitespace THEN str_lstrip(Tail(s)) ELSE s

\* s.strip()
str_strip(s) == str_lstrip(str_rstrip(s, Whitespace))

\* s.isdigit()
str_isdigit(s) == s # << >> /\ \A i \in 1..Len(s) : s[i] \in Digits

DigitValue(c) ==
  CASE c = "0" -> 0 [] c = "1" -> 1 [] c = "2" -> 2 [] c = "3" -> 3
    [] c = "4" -> 4 [] c = "5" -> 5 [] c = "6" -> 6 [] c = "7" -> 7
    [] c = "8" -> 8 [] c = "9" -> 9

\* int(s) for s.isdigit()
RECURSIVE str_int(_)
str_int(s) ==
  IF s = << >> THEN 0
  ELSE 10 * str_int(SubSeq(s, 1, Len(s) - 1)) + DigitValue(s[Len(s)])

DigitChar(d) ==
  CASE d = 0 -> "0" [] d = 1 -> "1" [] d = 2 -> "2" [] d = 3 -> "3"
    [] d = 4 -> "4" [] d = 5 -> "5" [] d = 6 -> "6" [] d = 7 -> "7"
    [] d = 8 -> "8" [] d = 9 -> "9"

\* str(n) for n >= 0, as in f"{ps.line_num}"
RECURSIVE int_str(_)
int_str(n) ==
  IF n < 10 THEN << DigitChar(n) >>
  ELSE int_str(n \div 10) \o << DigitChar(n % 10) >>

\* "".join(parts)
RECURSIVE str_join(_)
str_join(parts) ==
  IF parts = << >> THEN << >> ELSE Head(parts) \o str_join(Tail(parts))

\* ------------------------------------------------------------------------
\* SedCommandType
\* ------------------------------------------------------------------------
BRANCH == "b"
COMMENT == "#"
DELETE == "d"
DELETE_FIRST_LINE == "D"
EQUAL == "="
INSERT == "i"
LABEL == ":"
NEXT == "n"
NEXT_READ == "N"
PRINT == "p"
QUIT == "q"
QUIT_SILENT == "Q"
SUBSTITUTE == "s"
TEST == "t"
TEST_BRANCH == "T"
HOLD == "h"
HOLD_APPEND == "H"
EXCHANGE == "x"

\* the values SedCommandType(c) accepts
SedCommandType ==
  {BRANCH, COMMENT, DELETE, DELETE_FIRST_LINE, EQUAL, "g", HOLD, HOLD_APPEND,
   INSERT, LABEL, NEXT, NEXT_READ, PRINT, "P", QUIT, QUIT_SILENT, "r", "R",
   SUBSTITUTE, TEST, TEST_BRANCH, EXCHANGE, "y", "w", "W", "c", "l"}

NoArgs == [k \in {} |-> << >>]

SedCommand(a1, a2, t, args) ==
  [addr1 |-> a1, addr2 |-> a2, cmd_type |-> t, args |-> args]

\* ------------------------------------------------------------------------
\* The script compiler
\* ------------------------------------------------------------------------

\* end of the match of  ^(\d+|/[^/]+/|\$)  on a line without a comma
\* (0: no match)
AddrGroupEnd(line) ==
  IF line[1] \in Digits
  THEN CHOOSE k \in 1..Len(line) :
         /\ \A j \in 1..k : line[j] \in Digits
         /\ (k = Len(line) \/ line[k + 1] \notin Digits)
  ELSE IF line[1] = "/"
  THEN LET j == str_find(Tail(line), "/")
       IN  IF j >= 2 THEN j + 1 ELSE 0
  ELSE IF line[1] = "$" THEN 1
  ELSE 0

\* end of the match of the whole address regex of parse_addresses:
\* the address, \s*, and one letter of [a-z] (0: no match)
AddrRegexEnd(line) ==
  LET e == AddrGroupEnd(line)
      rest == SubSeq(line, e + 1, Len(line))
      ws == Len(rest) - Len(str_lstrip(rest))
  IN  IF e = 0 THEN 0
      ELSE IF e + ws + 1 <= Len(line) /\ line[e + ws + 1] \in LowerLetters
      THEN e + ws + 1
      ELSE 0

\* parse_addresses(line) = (addr1, addr2, cmd)
parse_addresses(line) ==
  IF str_contains(line, ",")
  THEN LET parts == str_split1(line, ",")
           rest == parts[2]
       IN  IF str_contains(rest, ",")
           THEN << Some(str_strip(parts[1])),
                   Some(str_strip(str_split1(rest, ",")[1])),
                   str_strip(str_split1(rest, ",")[2]) >>
           ELSE << Some(str_strip(parts[1])), None, str_strip(rest) >>
  ELSE IF line[1] \in Digits \cup {"/", "$"} /\ AddrRegexEnd(line) > 0
  THEN << Some(SubSeq(line, 1, AddrGroupEnd(line))), None,
          str_strip(SubSeq(line, AddrRegexEnd(line) + 1, Len(line))) >>
  ELSE << None, None, line >>

\* does  s(/[^/]+/[^/]+/)(.*)  match cmd_str
SubstituteMatches(cmd_str) ==
  /\ Len(cmd_str) >= 2 /\ cmd_str[1] = "s" /\ cmd_str[2] = "/"
  /\ LET a == SubSeq(cmd_str, 3, Len(cmd_str))
         i == str_find(a, "/")
         b == SubSeq(a, i + 1, Len(a))
         j == str_find(b, "/")
     IN  i >= 2 /\ j >= 2

\* parse_substitute(addr1, addr2, cmd_str)
parse_substitute(addr1, addr2, cmd_str) ==
  IF SubstituteMatches(cmd_str)
  THEN LET a == SubSeq(cmd_str, 3, Len(cmd_str))
           i == str_find(a, "/")
           b == SubSeq(a, i + 1, Len(a))
           j == str_find(b, "/")
       IN  SedCommand(addr1, addr2, SUBSTITUTE,
                      [pattern |-> SubSeq(a, 1, i - 1),
                       replacement |-> SubSeq(b, 1, j - 1),
                       flags |-> SubSeq(b, j + 1, Len(b))])
  ELSE SedCommand(addr1, addr2, SUBSTITUTE, NoArgs)

\* one iteration of the loop of PySedCore_parse_script:
\* [err |-> exception name or "", cmd |-> the compiled command]
parse_line(raw) ==
  LET line == str_rstrip(raw, Whitespace)
      pa == parse_addresses(line)
      cmd_str == pa[3]
  IN  IF line = << >> \/ line[1] = "#"
      THEN [err |-> "", cmd |-> SedCommand(None, None, COMMENT, NoArgs)]
      ELSE IF str_startswith(cmd_str, << ":" >>)
      THEN [err |-> "",
            cmd |-> SedCommand(pa[1], pa[2], LABEL, [label |-> Tail(cmd_str)])]
      ELSE IF str_startswith(cmd_str, << "s" >>)
      THEN [err |-> "", cmd |-> parse_substitute(pa[1], pa[2], cmd_str)]
      ELSE IF cmd_str = << >>
      THEN [err |-> "IndexError", cmd |-> SedCommand(None, None, COMMENT, NoArgs)]
      ELSE IF cmd_str[1] \notin SedCommandType
      THEN [err |-> "ValueError", cmd |-> SedCommand(None, None, COMMENT, NoArgs)]
      ELSE [err |-> "", cmd |-> SedCommand(pa[1], pa[2], cmd_str[1], NoArgs)]

\* PySedCore_parse_script(content): the first exception raised, if any, and
\* the commands compiled otherwise
PySedCore_parse_script(content) ==
  LET lines == str_split(content, NL)
      parsed == [i \in 1..Len(lines) |-> parse_line(lines[i])]
      bad == {i \in 1..Len(lines) : parsed[i].err # ""}
  IN  IF bad # {}
      THEN [err |-> parsed[CHOOSE i \in bad : \A j \in bad : i <= j].err,
            commands |-> << >>]
      ELSE [err |-> "", commands |-> [i \in 1..Len(lines) |-> parsed[i].cmd]]

\* ------------------------------------------------------------------------
\* Run state and addressing
\* ------------------------------------------------------------------------

\* SedPatternSpace()
SedPatternSpace ==
  [pattern_space |-> << >>, hold_space |-> << >>, substituted |-> FALSE,
   line_num |-> 0, last_line_num |-> 0]

\* bool(RegexMatcher.match(pattern, string)) for a literal pattern:
\* re.match anchors the pattern at the start of the string
regex_match(pattern, string) == str_startswith(string, pattern)

\* parse_address: [err |-> exception or "", val |-> None | Some(BOOLEAN)]
parse_address(addr, line_num, pattern_space, last_line_num) ==
  IF addr = None THEN [err |-> "", val |-> None]
  ELSE LET a == addr[1] IN
    IF a = << "$" >>
    THEN [err |-> "", val |-> Some(line_num = last_line_num)]
    ELSE IF str_startswith(a, << "/" >>)
    THEN [err |-> "",
          val |-> Some(regex_match(SubSeq(a, 2, Len(a) - 1), pattern_space))]
    ELSE IF str_isdigit(a)
    THEN [err |-> "", val |-> Some(line_num = str_int(a))]
    ELSE IF str_contains(a, "~")
    THEN LET parts == str_split(a, "~") IN
         IF Len(parts) # 2 \/ ~str_isdigit(parts[1]) \/ ~str_isdigit(parts[2])
         THEN [err |-> "ValueError", val |-> None]
         ELSE IF str_int(parts[2]) = 0
         THEN [err |-> "ZeroDivisionError", val |-> None]
         ELSE [err |-> "",
               val |-> Some((line_num - str_int(parts[1])) % str_int(parts[2]) = 0)]
    ELSE [err |-> "", val |-> None]

\* matches_command: [err, val |-> BOOLEAN]
matches_command(ps, cmd) ==
  LET addr1_match == parse_address(cmd.addr1, ps.line_num, ps.pattern_space,
                                   ps.last_line_num)
      addr2_match == parse_address(cmd.addr2, ps.line_num, ps.pattern_space,
                                   ps.last_line_num)
  IN  IF addr1_match.err # "" THEN [err |-> addr1_match.err, val |-> FALSE]
      ELSE IF addr2_match.err # "" THEN [err |-> addr2_match.err, val |-> FALSE]
      ELSE IF cmd.addr1 = None /\ cmd.addr2 = None THEN [err |-> "", val |-> TRUE]
      ELSE IF addr1_match.val = Some(TRUE) THEN [err |-> "", val |-> TRUE]
      ELSE IF addr1_match.val = Some(FALSE) THEN [err |-> "", val |-> FALSE]
      ELSE IF addr2_match.val # None THEN [err |-> "", val |-> addr2_match.val[1]]
      ELSE [err |-> "", val |-> TRUE]

\* ------------------------------------------------------------------------
\* execute_command
\* ------------------------------------------------------------------------

\* re.sub of a literal pattern: n matches still to replace (-1: no limit)
RECURSIVE re_sub_from(_, _, _, _)
re_sub_from(pattern, repl, string, n) ==
  IF string = << >> THEN << >>
  ELSE IF n # 0 /\ str_startswith(string, pattern)
  THEN repl \o re_sub_from(pattern, repl,
                           SubSeq(string, Len(pattern) + 1, Len(string)),
                           IF n > 0 THEN n - 1 ELSE n)
  ELSE << Head(string) >> \o re_sub_from(pattern, repl, Tail(string), n)

\* regex.sub(repl, string, count): count = 0 replaces every match
re_sub(pattern, repl, string, count) ==
  re_sub_from(pattern, repl, string, IF count = 0 THEN -1 ELSE count)

\* substitute_count with the test of the g flag inverted
substitute_count_inverted(args) ==
  LET global_flag == str_contains(args.flags, "g")
      count == IF "count" \in DOMAIN args THEN args.count ELSE 0
  IN  IF count > 0 THEN count ELSE IF global_flag THEN 1 ELSE 0

\* the count passed to regex.sub by the SUBSTITUTE branch
substitute_count(args) ==
  LET global_flag == str_contains(args.flags, "g")
      count == IF "count" \in DOMAIN args THEN args.count ELSE 0
  IN  IF count > 0 THEN count ELSE IF global_flag THEN 0 ELSE 1

Outcome(err, cont, ps, labels, output) ==
  [err |-> err, cont |-> cont, ps |-> ps, labels |-> labels, output |-> output]

\* labels[key] = 0
SetLabel(labels, key) ==
  [l \in DOMAIN labels \cup {key} |-> 0]

\* the label a BRANCH command refers to: cmd['args'].get('label', '0')
branch_label(cmd) ==
  IF "label" \in DOMAIN cmd.args THEN cmd.args.label ELSE << "0" >>

\* exec_hold appending to the hold space, as HOLD_APPEND does
exec_hold_append(ps) ==
  [ps EXCEPT !.hold_space = ps.hold_space \o << NL >> \o ps.pattern_space]

\* the HOLD branch
exec_hold(ps) == [ps EXCEPT !.hold_space = ps.pattern_space]

\* the EXCHANGE branch
exec_exchange(ps) ==
  [ps EXCEPT !.pattern_space = ps.hold_space, !.hold_space = ps.pattern_space]

\* exec_substitute saving the text it replaces in the hold space
exec_substitute_saving_old(ps, args) ==
  LET result == re_sub(args.pattern, args.replacement, ps.pattern_space,
                       substitute_count(args))
  IN  [ps EXCEPT !.substituted = (result # ps.pattern_space),
                 !.hold_space = ps.pattern_space,
                 !.pattern_space = result]

\* the SUBSTITUTE branch (args carries pattern, replacement and flags)
exec_substitute(ps, args) ==
  LET result == re_sub(args.pattern, args.replacement, ps.pattern_space,
                       substitute_count(args))
  IN  [ps EXCEPT !.substituted = (result # ps.pattern_space),
                 !.pattern_space = result]

\* exec_print without the newline
exec_print_no_newline(ps, output) == Append(output, ps.pattern_space)

\* the PRINT branch
exec_print(ps, output) == Append(output, ps.pattern_space \o << NL >>)

\* execute_command(ps, cmd, script, options, labels, output): the value
\* returned (cont), the exception raised (err) and the objects it mutates
execute_command(ps, cmd, labels, output) ==
  LET m == matches_command(ps, cmd)
      t == cmd.cmd_type
  IN  IF m.err # "" THEN Outcome(m.err, FALSE, ps, labels, output)
      ELSE IF ~m.val THEN Outcome("", TRUE, ps, labels, output)
      ELSE IF t = COMMENT THEN Outcome("", TRUE, ps, labels, output)
      ELSE IF t = LABEL
      THEN Outcome("", TRUE, ps,
                   SetLabel(labels, IF "label" \in DOMAIN cmd.args
                                    THEN cmd.args.label ELSE << >>),
                   output)
      ELSE IF t = BRANCH
      THEN Outcome("", branch_label(cmd) \notin DOMAIN labels, ps, labels, output)
      ELSE IF t = DELETE
      THEN Outcome("", FALSE, [ps EXCEPT !.pattern_space = << >>], labels, output)
      ELSE IF t = DELETE_FIRST_LINE
      THEN Outcome("", FALSE,
                   [ps EXCEPT !.pattern_space =
                      IF str_contains(ps.pattern_space, NL)
                      THEN str_split1(ps.pattern_space, NL)[2] ELSE << >>],
                   labels, output)
      ELSE IF t = PRINT
      THEN Outcome("", TRUE, ps, labels, exec_print(ps, output))
      ELSE IF t = EQUAL
      THEN Outcome("", TRUE, ps, labels,
                   Append(output, int_str(ps.line_num) \o << NL >>))
      ELSE IF t = NEXT THEN Outcome("", FALSE, ps, labels, output)
      ELSE IF t = INSERT
      THEN IF "text" \in DOMAIN cmd.args
           THEN Outcome("", TRUE, ps, labels, Append(output, cmd.args.text))
           ELSE Outcome("KeyError", FALSE, ps, labels, output)
      ELSE IF t = QUIT THEN Outcome("", FALSE, ps, labels, output)
      ELSE IF t = SUBSTITUTE
      THEN IF "pattern" \in DOMAIN cmd.args
           THEN Outcome("", TRUE, exec_substitute(ps, cmd.args), labels, output)
           ELSE Outcome("KeyError", FALSE, ps, labels, output)
      ELSE IF t = HOLD THEN Outcome("", TRUE, exec_hold(ps), labels, output)
      ELSE IF t = HOLD_APPEND
      THEN Outcome("", TRUE,
                   [ps EXCEPT !.hold_space = ps.hold_space \o << NL >> \o ps.pattern_space],
                   labels, output)
      ELSE IF t = EXCHANGE THEN Outcome("", TRUE, exec_exchange(ps), labels, output)
      ELSE IF t = TEST THEN Outcome("", ~ps.substituted, ps, labels, output)
      ELSE IF t = TEST_BRANCH THEN Outcome("", ps.substituted, ps, labels, output)
      ELSE Outcome("", TRUE, ps, labels, output)

\* ------------------------------------------------------------------------
\* Streams and files
\* ------------------------------------------------------------------------

\* stream.readline() at offset pos of the stream's text: through the next
\* newline, the rest of the text when none follows, '' at the end
readline(text, pos) ==
  LET rest == SubSeq(text, pos + 1, Len(text))
  IN  IF str_contains(rest, NL) THEN SubSeq(rest, 1, str_find(rest, NL)) ELSE rest

\* name.rfind('.') + 1
str_rfind_dot(name) ==
  IF str_contains(name, ".")
  THEN CHOOSE i \in 1..Len(name) :
         name[i] = "." /\ \A j \in (i + 1)..Len(name) : name[j] # "."
  ELSE 0

\* Path.suffix
path_suffix(name) ==
  LET i == str_rfind_dot(name)
  IN  IF 1 < i /\ i < Len(name) THEN SubSeq(name, i, Len(name)) ELSE << >>

\* Path.with_suffix(suffix): [err |-> exception or "", path |-> the new name]
with_suffix(name, suffix) ==
  IF str_contains(suffix, "/")
     \/ (suffix # << >> /\ ~str_startswith(suffix, << "." >>))
     \/ suffix = << "." >>
     \/ name = << >>
  THEN [err |-> "ValueError", path |-> name]
  ELSE IF path_suffix(name) = << >>
  THEN [err |-> "", path |-> name \o suffix]
  ELSE [err |-> "",
        path |-> SubSeq(name, 1, Len(name) - Len(path_suffix(name))) \o suffix]

\* backup_path with the suffix replacing the file's own
backup_path_replace_suffix(filepath, suffix) == with_suffix(filepath, suffix)

\* the backup_path of backup_file(filepath, suffix)
backup_path(filepath, suffix) ==
  with_suffix(filepath, path_suffix(filepath) \o suffix)

\* a copy that moves: the source is left empty
copy2_move(files, src, dst) ==
  [p \in DOMAIN files \cup {dst} |->
     IF p = dst THEN files[src] ELSE IF p = src THEN << >> ELSE files[p]]

\* shutil.copy2(src, dst) on the file system
copy2(files, src, dst) ==
  [p \in DOMAIN files \cup {dst} |-> IF p = dst THEN files[src] ELSE files[p]]

\* auto_print skipping an empty pattern space
auto_print_skip_empty(quiet, pattern_space, output) ==
  IF ~quiet /\ pattern_space # << >>
  THEN Append(output, pattern_space \o << NL >>)
  ELSE output

\* the append of the auto-print at the end of a cycle
auto_print(quiet, pattern_space, output) ==
  IF ~quiet THEN Append(output, pattern_space \o << NL >>) ELSE output

\* ------------------------------------------------------------------------
\* Inputs of the model: scripts, file names, file contents
\* ------------------------------------------------------------------------
MaxLines == 5
HistLen == 2

Script_RangeDelete == << "2", ",", "4", "d" >>
Script_RangeDelete3 == << "2", ",", "4", ",", "d" >>
Script_Delete == << "d" >>
Script_Print == << "p" >>
Script_HoldExchange == << "h", NL, "x" >>
Script_AddrHoldExchange == << "/", "x", "/", "h", "h", NL, "x" >>
Script_HoldAppendExchange == << "H", NL, "x" >>
Script_SubFirst == << "s", "/", "a", "/", "b", "/" >>
Script_SubGlobal == << "s", "/", "a", "/", "b", "/", "g" >>
Script_SubSecond == << "s", "/", "a", "/", "b", "/", "2" >>
Script_TestBranch ==
  << "s", "/", "x", "/", "y", "/", ";", "t", "e", "n", "d", ";",
     "s", "/", "z", "/", "q", "/", ";", ":", "e", "n", "d" >>
Script_TestBranchLines ==
  << "s", "/", "x", "/", "y", "/", NL, "t", "e", "n", "d", NL,
     "s", "/", "z", "/", "q", "/", NL, ":", "e", "n", "d" >>
Script_FooBar == << "s", "/", "f", "o", "o", "/", "b", "a", "r", "/" >>
Script_Unterminated == << "s", "/", "a", "/", "b" >>
Script_AddrDelete == << "2", "d" >>
Script_Quit == << "q" >>
Script_Next == << "n" >>
Script_Misc == << "#", "c", NL, NL, "y", NL, "x", NL, "T" >>
Script_LabelBranch == << ":", "0", NL, "b", NL, "p" >>
Script_BranchLabel == << "b", NL, ":", "0", NL, "p" >>
Script_BranchUndefined == << "b", " ", "e", "n", "d" >>
Script_InsertThird == << "3", ",", "i" >>
Script_LastPrint == << "$", "p", "p" >>
Script_BranchForward == << "b", "0", NL, "p", NL, ":", "0" >>
Script_LoopBranch == << ":", "0", NL, "2", ",", "b" >>
Script_NextDelete == << "n", NL, "d" >>
Script_HoldExchangeD == << "H", NL, "x", NL, "D" >>
Script_StepPrint == << "3", "~", "2", ",", "p" >>

Scripts ==
  {Script_RangeDelete, Script_RangeDelete3, Script_Delete, Script_Print,
   Script_HoldExchange, Script_AddrHoldExchange, Script_HoldAppendExchange,
   Script_SubFirst, Script_SubGlobal, Script_SubSecond, Script_TestBranch,
   Script_TestBranchLines, Script_FooBar, Script_Unterminated,
   Script_AddrDelete, Script_Quit, Script_Next, Script_Misc,
   Script_LabelBranch, Script_BranchLabel, Script_BranchUndefined,
   Script_InsertThird, Script_LastPrint, Script_BranchForward,
   Script_LoopBranch, Script_NextDelete, Script_HoldExchangeD,
   Script_StepPrint}

File_F == << "f", ".", "t", "x", "t" >>
File_G == << "g" >>
Suffix_Bak == << ".", "b", "a", "k" >>

\* n numbered lines: "1\n2\n...n\n"
Numbered(n) == str_join([i \in 1..n |-> int_str(i) \o << NL >>])

Content_aaa == << "a", "a", "a", NL >>
Content_foo == << "f", "o", "o" >>
Content_xz == << "x", "z", NL, "z", NL, "q", NL >>

Contents ==
  {Numbered(n) : n \in 0..MaxLines} \cup {Content_aaa, Content_foo, Content_xz}
SecondContents == {Content_foo, Content_xz}

\* ------------------------------------------------------------------------
\* The run: PySedCore_main, PySedCore_process, process_in_place
\* ------------------------------------------------------------------------
VARIABLES
  script_src,       \* the script text given with -e
  options,          \* SedOptions: quiet, unbuffered, separate, in_place
  input_files,      \* the file names given on the command line
  fs,               \* the file system: file name -> text
  fs0,              \* the file system when the run started
  pc,               \* position of the run
  err,              \* the exception that ended the run, "" when none
  commands,         \* script.commands
  gen_streams,      \* input_streams of the running PySedCore_process
  stream_idx,       \* position of "for stream in input_streams"
  pos,              \* read offset in the current stream
  line,             \* the local variable line
  ps,               \* the SedPatternSpace
  labels,           \* the dict labels
  output_buffer,    \* the list output_buffer
  yielded,          \* the lines the generator has yielded
  cmd_idx,          \* the local variable cmd_idx (0-based)
  continue_script,  \* the local variable continue_script
  hist,             \* the last HistLen execute_command calls of this cycle
  file_idx,         \* position of "for fname in input_files" (in-place mode)
  result            \* the local variable result of process_in_place

vars ==
  << script_src, options, input_files, fs, fs0, pc, err, commands,
     gen_streams, stream_idx, pos, line, ps, labels, output_buffer, yielded,
     cmd_idx, continue_script, hist, file_idx, result >>

inputs == << script_src, options, input_files, fs0 >>
gen_vars ==
  << gen_streams, stream_idx, pos, line, ps, labels, output_buffer, yielded,
     cmd_idx, continue_script, hist >>

\* "options.in_place and input_files" of PySedCore_main
in_place_mode ==
  /\ options.in_place # None /\ options.in_place[1] # << >>
  /\ input_files # << >>

Init ==
  /\ script_src \in Scripts
  /\ options \in [quiet : BOOLEAN, unbuffered : BOOLEAN, separate : BOOLEAN,
                  in_place : {None, Some(Suffix_Bak)}]
  /\ \/ /\ input_files = << File_F >>
        /\ \E c \in Contents : fs = [p \in {File_F} |-> c]
     \/ /\ input_files = << File_F, File_G >>
        /\ \E c \in SecondContents, d \in SecondContents :
             fs = [p \in {File_F, File_G} |-> IF p = File_F THEN c ELSE d]
  /\ fs0 = fs
  /\ pc = "parse"
  /\ err = ""
  /\ commands = << >>
  /\ gen_streams = << >>
  /\ stream_idx = 1
  /\ pos = 0
  /\ line = << >>
  /\ ps = SedPatternSpace
  /\ labels = NoArgs
  /\ output_buffer = << >>
  /\ yielded = << >>
  /\ cmd_idx = 0
  /\ continue_script = TRUE
  /\ hist = << >>
  /\ file_idx = 1
  /\ result = << >>

\* PySedCore_main: scripts.append(PySedCore_parse_script(...)); an exception
\* of the compiler is not caught
ParseScript ==
  /\ pc = "parse"
  /\ LET r == PySedCore_parse_script(script_src)
     IN  IF r.err # ""
         THEN /\ pc' = "error" /\ err' = r.err /\ UNCHANGED commands
         ELSE /\ pc' = "main" /\ commands' = r.commands /\ UNCHANGED err
  /\ UNCHANGED << inputs, fs, gen_vars, file_idx, result >>

\* the first lines of PySedCore_process, up to the loop over the streams
StartGenerator(streams) ==
  /\ gen_streams' = streams
  /\ stream_idx' = 1
  /\ pos' = 0
  /\ line' = << >>
  /\ ps' = SedPatternSpace
  /\ labels' = NoArgs
  /\ output_buffer' = << >>
  /\ yielded' = << >>
  /\ cmd_idx' = 0
  /\ continue_script' = TRUE
  /\ hist' = << >>
  /\ pc' = "stream"

\* PySedCore_main, not in place: PySedCore_process(streams, ...)
StartProcess ==
  /\ pc = "main"
  /\ ~in_place_mode
  /\ StartGenerator(input_files)
  /\ UNCHANGED << inputs, fs, err, commands, file_idx, result >>

\* PySedCore_main, in place: process_in_place(Path(fname), ...) opens the
\* file and runs PySedCore_process on it alone
StartInPlace ==
  /\ pc = "main"
  /\ in_place_mode
  /\ StartGenerator(<< input_files[file_idx] >>)
  /\ UNCHANGED << inputs, fs, err, commands, file_idx, result >>

\* for stream in input_streams: ps.line_num = 0
NextStream ==
  /\ pc = "stream"
  /\ IF stream_idx <= Len(gen_streams)
     THEN /\ ps' = [ps EXCEPT !.line_num = 0]
          /\ pos' = 0
          /\ pc' = "read"
     ELSE /\ pc' = "final"
          /\ UNCHANGED << ps, pos >>
  /\ UNCHANGED << inputs, fs, err, commands, gen_streams, stream_idx, line,
                  labels, output_buffer, yielded, cmd_idx, continue_script,
                  hist, file_idx, result >>

\* line = stream.readline(); the start of a cycle
ReadLine ==
  /\ pc = "read"
  /\ LET l == readline(fs[gen_streams[stream_idx]], pos)
     IN  IF l = << >>
         THEN /\ pc' = "stream_end"
              /\ line' = l
              /\ UNCHANGED << ps, pos, cmd_idx, continue_script, hist >>
         ELSE /\ line' = l
              /\ pos' = pos + Len(l)
              /\ ps' = [ps EXCEPT !.pattern_space = str_rstrip(l, {NL}),
                                  !.line_num = ps.line_num + 1,
                                  !.last_line_num = ps.line_num + 1]
              /\ continue_script' = TRUE
              /\ cmd_idx' = 0
              /\ hist' = << >>
              /\ pc' = "exec"
  /\ UNCHANGED << inputs, fs, err, commands, gen_streams, stream_idx, labels,
                  output_buffer, yielded, file_idx, result >>

\* the condition of the command loop
InCommandLoop == continue_script /\ cmd_idx < Len(commands)

\* cmd_idx after execute_command returned
next_cmd_idx(cmd, idx, labs) ==
  IF cmd.cmd_type = BRANCH
  THEN IF branch_label(cmd) \in DOMAIN labs
       THEN labs[branch_label(cmd)]
       ELSE idx + 1
  ELSE idx + 1

Remember(h, entry) ==
  IF Len(h) < HistLen THEN Append(h, entry) ELSE Append(Tail(h), entry)

\* one iteration of the command loop
ExecuteStep ==
  /\ pc = "exec"
  /\ InCommandLoop
  /\ LET cmd == commands[cmd_idx + 1]
         r == execute_command(ps, cmd, labels, output_buffer)
     IN  /\ hist' = Remember(hist, [idx |-> cmd_idx, cmd |-> cmd, ps0 |-> ps,
                                    applied |-> matches_command(ps, cmd).val])
         /\ ps' = r.ps
         /\ labels' = r.labels
         /\ output_buffer' = r.output
         /\ IF r.err # ""
            THEN /\ pc' = "error" /\ err' = r.err
                 /\ UNCHANGED << continue_script, cmd_idx >>
            ELSE /\ continue_script' = r.cont
                 /\ cmd_idx' = next_cmd_idx(cmd, cmd_idx, r.labels)
                 /\ UNCHANGED << pc, err >>
  /\ UNCHANGED << inputs, fs, commands, gen_streams, stream_idx, pos, line,
                  yielded, file_idx, result >>

\* after the command loop: the auto-print and the unbuffered flush
EndCycle ==
  /\ pc = "exec"
  /\ ~InCommandLoop
  /\ LET out == auto_print(options.quiet, ps.pattern_space, output_buffer)
     IN  IF options.unbuffered
         THEN /\ yielded' = yielded \o out /\ output_buffer' = << >>
         ELSE /\ output_buffer' = out /\ UNCHANGED yielded
  /\ pc' = "read"
  /\ UNCHANGED << inputs, fs, err, commands, gen_streams, stream_idx, pos,
                  line, ps, labels, cmd_idx, continue_script, hist, file_idx,
                  result >>

\* EndStream yielding the buffer of separate mode without clearing it
EndStream_keep_buffer ==
  /\ pc = "stream_end"
  /\ IF options.separate
     THEN /\ yielded' = yielded \o output_buffer /\ UNCHANGED output_buffer
     ELSE UNCHANGED << yielded, output_buffer >>
  /\ stream_idx' = stream_idx + 1
  /\ pc' = "stream"
  /\ UNCHANGED << inputs, fs, err, commands, gen_streams, pos, line, ps,
                  labels, cmd_idx, continue_script, hist, file_idx, result >>

\* a stream is exhausted: the flush of separate mode, then the next stream
EndStream ==
  /\ pc = "stream_end"
  /\ IF options.separate
     THEN /\ yielded' = yielded \o output_buffer /\ output_buffer' = << >>
     ELSE UNCHANGED << yielded, output_buffer >>
  /\ stream_idx' = stream_idx + 1
  /\ pc' = "stream"
  /\ UNCHANGED << inputs, fs, err, commands, gen_streams, pos, line, ps,
                  labels, cmd_idx, continue_script, hist, file_idx, result >>

\* for line in output_buffer: yield line  (the end of the generator)
FinalFlush ==
  /\ pc = "final"
  /\ yielded' = yielded \o output_buffer
  /\ pc' = "gen_done"
  /\ UNCHANGED << inputs, fs, err, commands, gen_streams, stream_idx, pos,
                  line, ps, labels, output_buffer, cmd_idx, continue_script,
                  hist, file_idx, result >>

\* PySedCore_main, not in place: the loop writing to stdout ends, return 0
FinishProcess ==
  /\ pc = "gen_done"
  /\ ~in_place_mode
  /\ pc' = "done"
  /\ UNCHANGED << inputs, fs, err, commands, gen_vars, file_idx, result >>

\* process_in_place: result = list(...); backup_file(input_file, suffix)
Backup ==
  /\ pc = "gen_done"
  /\ in_place_mode
  /\ result' = yielded
  /\ IF options.in_place # None /\ options.in_place[1] # << >>
     THEN LET b == backup_path(input_files[file_idx], options.in_place[1])
          IN  IF b.err # ""
              THEN /\ pc' = "error" /\ err' = b.err /\ UNCHANGED fs
              ELSE /\ fs' = copy2(fs, input_files[file_idx], b.path)
                   /\ pc' = "ip_write" /\ UNCHANGED err
     ELSE /\ pc' = "ip_write" /\ UNCHANGED << fs, err >>
  /\ UNCHANGED << inputs, commands, gen_vars, file_idx >>

\* backup_file when shutil.copy2 raises: the backup is missing or holds only
\* the first n characters, the run ends in the except of PySedCore_main
BackupFails ==
  /\ pc = "gen_done"
  /\ in_place_mode
  /\ result' = yielded
  /\ LET f == input_files[file_idx]
         b == backup_path(f, options.in_place[1])
     IN  /\ b.err = ""
         /\ \/ UNCHANGED fs
            \/ \E n \in 0..(Len(fs[f]) - 1) :
                 fs' = [p \in DOMAIN fs \cup {b.path} |->
                          IF p = b.path THEN SubSeq(fs[f], 1, n) ELSE fs[p]]
  /\ pc' = "error"
  /\ err' = "OSError"
  /\ UNCHANGED << inputs, commands, gen_vars, file_idx >>

\* process_in_place: open(input_file, 'w') truncates the file
OpenForWrite ==
  /\ pc = "ip_write"
  /\ fs' = [fs EXCEPT ![input_files[file_idx]] = << >>]
  /\ pc' = "ip_writelines"
  /\ UNCHANGED << inputs, err, commands, gen_vars, file_idx, result >>

\* outfile.writelines(result) raises after the first k lines were written;
\* the run ends in the except of PySedCore_main
WriteFails ==
  /\ pc = "ip_writelines"
  /\ \E k \in 0..(Len(result) - 1) :
       fs' = [fs EXCEPT ![input_files[file_idx]] = str_join(SubSeq(result, 1, k))]
  /\ pc' = "error"
  /\ err' = "OSError"
  /\ UNCHANGED << inputs, commands, gen_vars, file_idx, result >>

\* process_in_place: outfile.writelines(result); then the next file
WriteBack ==
  /\ pc = "ip_writelines"
  /\ fs' = [fs EXCEPT ![input_files[file_idx]] = str_join(result)]
  /\ file_idx' = file_idx + 1
  /\ pc' = IF file_idx < Len(input_files) THEN "main" ELSE "done"
  /\ UNCHANGED << inputs, err, commands, gen_vars, result >>

Next ==
  \/ ParseScript
  \/ StartProcess
  \/ StartInPlace
  \/ NextStream
  \/ ReadLine
  \/ ExecuteStep
  \/ EndCycle
  \/ EndStream
  \/ FinalFlush
  \/ FinishProcess
  \/ Backup
  \/ BackupFails
  \/ OpenForWrite
  \/ WriteFails
  \/ WriteBack

Spec == Init /\ [][Next]_vars

\* the steps of PySedCore_main after the script was compiled
RunStep ==
  \/ StartProcess \/ StartInPlace \/ NextStream \/ ReadLine \/ ExecuteStep
  \/ EndCycle \/ EndStream \/ FinalFlush \/ FinishProcess
  \/ Backup \/ BackupFails \/ OpenForWrite \/ WriteFails \/ WriteBack

\* the runs of three scripts with a label and a branch or a print, over one
\* file of one or two lines; the program is sequential, so once the script
\* is compiled a step that can be taken is taken
LoopScripts == {Script_LoopBranch, Script_LabelBranch, Script_Print}
LoopInit ==
  /\ Init
  /\ script_src \in LoopScripts
  /\ input_files = << File_F >>
  /\ fs[File_F] \in {Numbered(1), Numbered(2)}
LoopSpec == LoopInit /\ [][Next]_vars /\ WF_vars(RunStep)

\* ------------------------------------------------------------------------
\* Vocabulary of the properties
\* ------------------------------------------------------------------------

\* the lines of a text as readline returns them, terminators included
RECURSIVE InputLines(_)
InputLines(text) ==
  IF text = << >> THEN << >>
  ELSE << readline(text, 0) >>
         \o InputLines(SubSeq(text, Len(readline(text, 0)) + 1, Len(text)))

\* the lines of the given streams, in order
RECURSIVE StreamLines(_, _)
StreamLines(files, streams) ==
  IF streams = << >> THEN << >>
  ELSE InputLines(files[Head(streams)]) \o StreamLines(files, Tail(streams))

\* the lines the running generator has consumed so far
ConsumedLines ==
  StreamLines(fs, SubSeq(gen_streams, 1, stream_idx - 1))
    \o InputLines(SubSeq(fs[gen_streams[stream_idx]], 1, pos))

\* a line without its terminator
Chomp(l) == IF l # << >> /\ l[Len(l)] = NL THEN SubSeq(l, 1, Len(l) - 1) ELSE l

\* every output line produced so far by the running generator
Emitted == yielded \o output_buffer

Finished == pc \in {"done", "error"}
CycleEnd == pc = "exec" /\ ~InCommandLoop
LastExec == hist[Len(hist)]

\* the leftmost occurrence of p in s (0: none)
FirstOccurrence(p, s) ==
  LET at == {i \in 1..Len(s) : i + Len(p) - 1 <= Len(s)
                                /\ SubSeq(s, i, i + Len(p) - 1) = p}
  IN  IF at = {} THEN 0 ELSE CHOOSE i \in at : \A j \in at : i <= j

\* s with the leftmost occurrence of p replaced by r
ReplaceFirst(p, r, s) ==
  LET i == FirstOccurrence(p, s)
  IN  IF i = 0 THEN s
      ELSE SubSeq(s, 1, i - 1) \o r \o SubSeq(s, i + Len(p), Len(s))

\* s with every occurrence of the character c replaced by r
ReplaceEveryChar(c, r, s) ==
  str_join([i \in 1..Len(s) |-> IF s[i] = c THEN r ELSE << s[i] >>])

Text_aaa == << "a", "a", "a" >>
Text_a == << "a" >>
Text_b == << "b" >>

\* ------------------------------------------------------------------------
\* Properties
\* ------------------------------------------------------------------------

\* C1: the script `2,4d` over the 5 numbered lines, not quiet, one stream,
\* ends with exactly the output lines of input lines 1 and 5, in that order.
C1_RangeDeleteKeepsFirstAndLast ==
  ( /\ script_src = Script_RangeDelete
    /\ ~options.quiet /\ ~in_place_mode
    /\ input_files = << File_F >> /\ fs0[File_F] = Numbered(5)
    /\ Finished )
  => ( /\ pc = "done"
       /\ yielded = << << "1", NL >>, << "5", NL >> >> )

TwoNumericAddresses(cmd) ==
  /\ cmd.addr1 # None /\ cmd.addr2 # None
  /\ str_isdigit(cmd.addr1[1]) /\ str_isdigit(cmd.addr2[1])
  /\ str_int(cmd.addr1[1]) < str_int(cmd.addr2[1])

\* C2: a command with two addresses applies on a line exactly when the line
\* lies in the open range; for two line numbers a1 < a2 these are the lines
\* a1..a2, the lines strictly between the two included.
C2_RangeStaysOpen ==
  \A i \in 1..Len(hist) :
    TwoNumericAddresses(hist[i].cmd)
    => ( hist[i].applied
         <=> ( /\ str_int(hist[i].cmd.addr1[1]) <= hist[i].ps0.line_num
               /\ hist[i].ps0.line_num <= str_int(hist[i].cmd.addr2[1]) ) )

DeleteApplies ==
  /\ pc = "exec" /\ InCommandLoop
  /\ commands[cmd_idx + 1].cmd_type = DELETE
  /\ matches_command(ps, commands[cmd_idx + 1]).val

CycleEndedByDelete ==
  /\ CycleEnd /\ hist # << >>
  /\ LastExec.cmd.cmd_type = DELETE /\ LastExec.applied

\* C3: when `d` applies, the pattern space is cleared, the remaining
\* commands of the cycle are skipped, and the end of that cycle appends no
\* auto-print entry to the output, quiet or not.
C3_DeleteSuppressesAutoPrint ==
  [][ /\ DeleteApplies => (ps'.pattern_space = << >> /\ ~continue_script')
      /\ CycleEndedByDelete => (yielded' \o output_buffer' = Emitted)
    ]_vars

\* the scripts of C4: compiled, no command has an address, none is d, D, Q,
\* N, p, = or i, and every substitution has its three delimiters
PlainScript ==
  /\ commands # << >>
  /\ \A i \in 1..Len(commands) :
       /\ commands[i].addr1 = None /\ commands[i].addr2 = None
       /\ commands[i].cmd_type \notin
            {DELETE, DELETE_FIRST_LINE, QUIT_SILENT, NEXT_READ, PRINT, EQUAL,
             INSERT}
       /\ commands[i].cmd_type = SUBSTITUTE => "pattern" \in DOMAIN commands[i].args

\* C4: for a script without addresses and without d, D, Q, N, p, =, i, not
\* quiet, every input line read so far has produced exactly one output line,
\* the finished generator has yielded as many lines as the input has, and
\* the only error that can end the run is a failed write of the in-place mode.
C4_OneOutputLinePerInputLine ==
  (PlainScript /\ ~options.quiet)
  => /\ pc = "read" => Len(Emitted) = Len(ConsumedLines)
     /\ pc = "gen_done" => Len(yielded) = Len(StreamLines(fs, gen_streams))
     /\ pc = "error" => err = "OSError"

C4_Witness ==
  /\ PlainScript /\ ~options.quiet /\ pc = "gen_done"
  /\ Len(gen_streams) = 2
  /\ Len(yielded) = 4
  /\ \E i \in 1..Len(commands) : commands[i].cmd_type = EXCHANGE

QuietPrintRun ==
  /\ script_src = Script_Print /\ options.quiet /\ pc = "gen_done"

\* C5 as stated: quiet and the lone `p` reproduce the input line for line,
\* each output line identical to its input line, a final line without a
\* newline included.
C5_QuietPrintReproducesInput ==
  QuietPrintRun => yielded = StreamLines(fs, gen_streams)

\* C5 amended: quiet and the lone `p` yield one line per input line, in
\* order, each the input line without its terminator followed by a newline.
C5_QuietPrintYieldsTerminatedLines ==
  QuietPrintRun
  => LET inp == StreamLines(fs, gen_streams)
     IN  yielded = [i \in 1..Len(inp) |-> Chomp(inp[i]) \o << NL >>]

C5_Witness ==
  /\ QuietPrintRun
  /\ gen_streams = << File_F >> /\ fs[File_F] = Content_foo
  /\ yielded = << << "f", "o", "o", NL >> >>

\* the last two commands executed in this cycle were `h` and, right after
\* it, `x`, and both applied
HoldThenExchange ==
  /\ Len(hist) >= 2
  /\ hist[Len(hist) - 1].cmd.cmd_type = HOLD /\ hist[Len(hist) - 1].applied
  /\ LastExec.cmd.cmd_type = EXCHANGE /\ LastExec.applied
  /\ LastExec.idx = hist[Len(hist) - 1].idx + 1

\* C6: `h` immediately followed by `x` leaves the pattern space as it was
\* before `h`, and the hold space equal to it.
C6_HoldThenExchangeKeepsPatternSpace ==
  HoldThenExchange
  => /\ ps.pattern_space = hist[Len(hist) - 1].ps0.pattern_space
     /\ ps.hold_space = hist[Len(hist) - 1].ps0.pattern_space

C6_Witness ==
  /\ HoldThenExchange
  /\ hist[Len(hist) - 1].ps0.hold_space # << >>
  /\ hist[Len(hist) - 1].ps0.hold_space # hist[Len(hist) - 1].ps0.pattern_space
  /\ ps.pattern_space = hist[Len(hist) - 1].ps0.pattern_space

\* the last command executed in this cycle is a well-formed substitution
\* that applied
SubstituteApplied ==
  /\ hist # << >>
  /\ LastExec.cmd.cmd_type = SUBSTITUTE /\ LastExec.applied
  /\ "pattern" \in DOMAIN LastExec.cmd.args

\* C7: a substitution without flags replaces the leftmost match only, one
\* with the flag g every match (`aaa`: s/a/b/ gives `baa`, s/a/b/g `bbb`).
C7_FirstOrEveryMatch ==
  SubstituteApplied
  => LET a == LastExec.cmd.args
         s0 == LastExec.ps0.pattern_space
     IN  /\ a.flags = << >>
              => ps.pattern_space = ReplaceFirst(a.pattern, a.replacement, s0)
         /\ (a.flags = << "g" >> /\ Len(a.pattern) = 1)
              => ps.pattern_space =
                   ReplaceEveryChar(a.pattern[1], a.replacement, s0)
         /\ (a.pattern = Text_a /\ a.replacement = Text_b /\ s0 = Text_aaa)
              => /\ a.flags = << >> => ps.pattern_space = << "b", "a", "a" >>
                 /\ a.flags = << "g" >> => ps.pattern_space = << "b", "b", "b" >>

C7_Witness ==
  /\ SubstituteApplied
  /\ LastExec.cmd.args.flags = << "g" >>
  /\ LastExec.ps0.pattern_space = Text_aaa
  /\ ps.pattern_space = << "b", "b", "b" >>

\* C8: s/a/b/2 on `aaa` replaces the second match only and gives `aba`.
C8_CountReplacesNthMatch ==
  ( /\ SubstituteApplied
    /\ LastExec.cmd.args.pattern = Text_a
    /\ LastExec.cmd.args.replacement = Text_b
    /\ LastExec.cmd.args.flags = << "2" >>
    /\ LastExec.ps0.pattern_space = Text_aaa )
  => ps.pattern_space = << "a", "b", "a" >>

\* C9: with the script s/x/y/;tend;s/z/q/;:end a line without x ends its
\* cycle with s/z/q/ applied to it, a line with x with s/x/y/ applied and
\* s/z/q/ skipped.
C9_TestBranchOnlyAfterSubstitution ==
  (script_src = Script_TestBranch /\ CycleEnd)
  => IF str_contains(Chomp(line), "x")
     THEN ps.pattern_space = ReplaceFirst(<< "x" >>, << "y" >>, Chomp(line))
     ELSE ps.pattern_space = ReplaceFirst(<< "z" >>, << "q" >>, Chomp(line))

InPlaceFooBarDone ==
  /\ script_src = Script_FooBar /\ ~options.quiet
  /\ options.in_place = Some(Suffix_Bak) /\ in_place_mode
  /\ pc = "done"

\* C10: in place with the suffix .bak and the script s/foo/bar/ (the other
\* options at their defaults), a file that held `foo` holds `bar` after the
\* run, and the file named by the original name plus the suffix holds `foo`.
C10_InPlaceBackup ==
  InPlaceFooBarDone
  => \A i \in 1..Len(input_files) :
       fs0[input_files[i]] = Content_foo
       => /\ fs[input_files[i]] = << "b", "a", "r", NL >>
          /\ (input_files[i] \o Suffix_Bak) \in DOMAIN fs
          /\ fs[input_files[i] \o Suffix_Bak] = Content_foo

C10_Witness ==
  /\ InPlaceFooBarDone
  /\ fs0[File_F] = Content_foo
  /\ fs[File_F] = << "b", "a", "r", NL >>
  /\ fs[File_F \o Suffix_Bak] = Content_foo

\* ------------------------------------------------------------------------
\* In-place editing: order of the steps and failures
\* ------------------------------------------------------------------------

\* the file process_in_place is working on, and the name of its backup
CurrentFile == input_files[file_idx]
CurrentBackup == CurrentFile \o options.in_place[1]
InPlaceFile == in_place_mode /\ commands # << >> /\ file_idx <= Len(input_files)

\* the generator of the current file raised
GenerationRaised == pc = "error" /\ err # "OSError"

\* C11: in place, for each file: while the output is generated, and when the
\* generation raised, the file holds its original content and no backup
\* exists; the backup is written only from the complete output list and
\* before the file is opened for writing, and it holds the original content.
C11_GenerateThenBackupThenOverwrite ==
  InPlaceFile
  => /\ (pc \in {"main", "stream", "read", "exec", "stream_end", "final",
                 "gen_done"} \/ GenerationRaised)
        => /\ fs[CurrentFile] = fs0[CurrentFile]
           /\ CurrentBackup \notin DOMAIN fs
     /\ pc \in {"ip_write", "ip_writelines"}
        => /\ stream_idx > Len(gen_streams)
           /\ result = yielded
           /\ CurrentBackup \in DOMAIN fs
           /\ fs[CurrentBackup] = fs0[CurrentFile]
     /\ pc = "ip_write" => fs[CurrentFile] = fs0[CurrentFile]

C11_Witness ==
  /\ InPlaceFile /\ GenerationRaised
  /\ script_src = Script_InsertThird /\ options.unbuffered /\ ~options.quiet
  /\ ps.line_num = 3
  /\ Len(yielded) = 2
  /\ fs = fs0

\* C12: in place, when the run was ended by a failure (while generating,
\* while copying the backup or while overwriting), the file being processed
\* holds either its complete original content or its complete new content.
C12_NeverHalfWritten ==
  (InPlaceFile /\ pc = "error")
  => \/ fs[CurrentFile] = fs0[CurrentFile]
     \/ fs[CurrentFile] = str_join(result)

\* ------------------------------------------------------------------------
\* Branches, quit, laziness
\* ------------------------------------------------------------------------

\* C13: the script `b end`, which declares no label `end`, produces no
\* output line and does not end normally.
C13_UndefinedLabelFails ==
  script_src = Script_BranchUndefined
  => /\ yielded = << >> /\ output_buffer = << >>
     /\ pc # "done"

\* the last command executed in this cycle was a q that applied
QuitApplied ==
  /\ hist # << >>
  /\ LastExec.cmd.cmd_type = QUIT
  /\ LastExec.applied

\* C14: the cycle in which q applied ends with the auto-print of its line
\* (unless quiet), and after it no further cycle starts, in this stream or
\* in a following one.
C14_QuitEndsRun ==
  [][ /\ (CycleEnd /\ QuitApplied /\ ~options.quiet)
         => yielded' \o output_buffer'
              = Emitted \o << ps.pattern_space \o << NL >> >>
      /\ (pc = "read" /\ QuitApplied) => pc' # "exec"
    ]_vars

\* no command of the script is n or N
NoReadAhead ==
  \A i \in 1..Len(commands) : commands[i].cmd_type \notin {NEXT, NEXT_READ}

\* C15: neither unbuffered nor separate, no n or N in the script: when the
\* next input line is about to be read, every output line of the lines read
\* before has been yielded.
C15_OutputYieldedBeforeNextRead ==
  ( /\ ~options.unbuffered /\ ~options.separate
    /\ NoReadAhead
    /\ pc = "read"
    /\ readline(fs[gen_streams[stream_idx]], pos) # << >> )
  => output_buffer = << >>

\* ------------------------------------------------------------------------
\* Addresses over several streams, compile errors, the substituted flag
\* ------------------------------------------------------------------------

\* the line of the current cycle is the last one of its scope: of its stream
\* when separate, of the last stream otherwise
LastLineOfScope ==
  /\ pos = Len(fs[gen_streams[stream_idx]])
  /\ options.separate \/ stream_idx = Len(gen_streams)

\* C16: a command whose only address is `$` applies on the last line of its
\* scope and on no other line.
C16_LastLineAddress ==
  ( /\ pc = "exec" /\ hist # << >>
    /\ LastExec.cmd.addr1 = Some(<< "$" >>) /\ LastExec.cmd.addr2 = None )
  => (LastExec.applied <=> LastLineOfScope)

\* C17: when separate is off, the line number of the current cycle is the
\* number of lines read so far over all streams.
C17_LineNumbersContinueAcrossStreams ==
  (~options.separate /\ pc = "exec")
  => ps.line_num = Len(ConsumedLines)

\* C18: when separate is on, a stream starts with line number 0, with no
\* label recorded, and with every output line of the earlier streams yielded.
C18_SeparateStreamsStartFresh ==
  (options.separate /\ pc = "read" /\ pos = 0)
  => /\ ps.line_num = 0
     /\ labels = NoArgs
     /\ output_buffer = << >>

\* C19: the unterminated script `s/a/b` does not compile: no input line is
\* ever read and the run ends in an error right after the compiler.
C19_SyntaxErrorAtCompileTime ==
  script_src = Script_Unterminated
  => /\ pc \in {"parse", "error"}
     /\ pos = 0 /\ line = << >>

\* C20: when the first command of a cycle is fetched, substituted is false.
C20_SubstitutedFalseAtCycleStart ==
  (pc = "exec" /\ cmd_idx = 0 /\ hist = << >>)
  => ~ps.substituted

\* ------------------------------------------------------------------------
\* The command loop: branches, tests, addresses that do not apply
\* ------------------------------------------------------------------------

\* the command loop is about to fetch a command, the command, and whether
\* its addresses select the current line
Fetching == pc = "exec" /\ InCommandLoop
CurrentCmd == commands[cmd_idx + 1]
CurrentApplies ==
  /\ matches_command(ps, CurrentCmd).err = ""
  /\ matches_command(ps, CurrentCmd).val

\* C21: in the script `b0`, `p`, `:0` the applying branch sets the program
\* counter to the index of `:0` (2) and the cycle continues there; in the
\* scripts `b`, `:0`, `p` and `:0`, `b`, `p` the applying branch without a
\* label name ends the command loop of the cycle.
C21_BranchJumpsToLabel ==
  [][ (Fetching /\ CurrentCmd.cmd_type = BRANCH /\ CurrentApplies)
      => /\ script_src = Script_BranchForward
            => (pc' = "exec" /\ cmd_idx' = 2 /\ continue_script')
         /\ script_src \in {Script_BranchLabel, Script_LabelBranch}
            => (pc' = "exec" /\ ~(continue_script' /\ cmd_idx' < Len(commands)))
    ]_vars

\* C22: a fetched command whose addresses do not select the current line
\* advances the program counter by exactly 1 and the cycle continues.
C22_NonApplyingAdvancesByOne ==
  [][ ( /\ Fetching
        /\ matches_command(ps, CurrentCmd).err = ""
        /\ ~matches_command(ps, CurrentCmd).val )
      => (pc' = "exec" /\ cmd_idx' = cmd_idx + 1 /\ continue_script')
    ]_vars

\* C23: an applying t with substituted true clears the flag; with
\* substituted false it changes nothing and the next command follows.
C23_TestClearsFlag ==
  [][ (Fetching /\ CurrentCmd.cmd_type = TEST /\ CurrentApplies)
      => IF ps.substituted
         THEN ~ps'.substituted
         ELSE /\ ps' = ps /\ labels' = labels /\ output_buffer' = output_buffer
              /\ pc' = "exec" /\ cmd_idx' = cmd_idx + 1 /\ continue_script'
    ]_vars

\* ------------------------------------------------------------------------
\* The hold space
\* ------------------------------------------------------------------------

\* C24: PySedCore_process starts with an empty hold space, and a step changes
\* the hold space only when it executes an applying h, H or x: reading a
\* line, the auto-print, the flushes and every other command leave it alone.
C24_HoldSpaceFrame ==
  [][ /\ pc = "main" => ps'.hold_space = << >>
      /\ (pc # "main" /\ ps'.hold_space # ps.hold_space)
         => /\ Fetching
            /\ CurrentCmd.cmd_type \in {HOLD, HOLD_APPEND, EXCHANGE}
            /\ CurrentApplies
    ]_vars

\* the hold space filled on line 1 is still there when line 2 starts
C24_Witness ==
  /\ pc = "exec" /\ cmd_idx = 0 /\ hist = << >>
  /\ ps.line_num = 2
  /\ ps.hold_space = << "1" >>
  /\ script_src = Script_HoldExchange

\* ------------------------------------------------------------------------
\* n, D, step addresses, the label table
\* ------------------------------------------------------------------------

\* the last command of the cycle that just ended was an applying n, another
\* command follows it in the script, and another input line exists
NextLineAfterN ==
  /\ pc = "read" /\ hist # << >>
  /\ LastExec.cmd.cmd_type = NEXT /\ LastExec.applied
  /\ LastExec.idx + 1 < Len(commands)
  /\ readline(fs[gen_streams[stream_idx]], pos) # << >>

\* C25: after an applying n, the next input line replaces the pattern space,
\* the line number grows by 1 and the command after n is the next one
\* fetched.
C25_NextContinuesAfterN ==
  [][ NextLineAfterN
      => /\ ps'.pattern_space = Chomp(readline(fs[gen_streams[stream_idx]], pos))
         /\ ps'.line_num = ps.line_num + 1
         /\ pc' = "exec"
         /\ cmd_idx' = LastExec.idx + 1
    ]_vars

\* C26: an applying D on a pattern space with an embedded newline removes
\* the text through the first newline and restarts the command loop at
\* command 0, with the same line number and with no output in between.
C26_DeleteFirstLineRestarts ==
  [][ ( /\ Fetching /\ CurrentCmd.cmd_type = DELETE_FIRST_LINE
        /\ CurrentApplies
        /\ str_contains(ps.pattern_space, NL) )
      => /\ ps'.pattern_space = str_split1(ps.pattern_space, NL)[2]
         /\ ps'.line_num = ps.line_num
         /\ output_buffer' = output_buffer /\ yielded' = yielded
         /\ pc' = "exec" /\ cmd_idx' = 0 /\ continue_script'
    ]_vars

\* C27: the command addressed `3~2` applies on line L exactly when L >= 3
\* and (L - 3) mod 2 = 0.
C27_StepAddress ==
  ( /\ pc = "exec" /\ hist # << >>
    /\ LastExec.cmd.addr1 = Some(<< "3", "~", "2" >>)
    /\ LastExec.cmd.addr2 = None )
  => ( LastExec.applied
       <=> ( /\ LastExec.ps0.line_num >= 3
             /\ (LastExec.ps0.line_num - 3) % 2 = 0 ) )

\* C28: while the command loop runs, every label declared by a `:` command
\* of the script is in the label table.
C28_LabelTableComplete ==
  pc = "exec"
  => \A i \in 1..Len(commands) :
       (commands[i].cmd_type = LABEL /\ "label" \in DOMAIN commands[i].args)
       => commands[i].args.label \in DOMAIN labels

\* ------------------------------------------------------------------------
\* Termination
\* ------------------------------------------------------------------------

\* C29: every cycle that has started leaves the command loop (to the read of
\* the next line, after its auto-print, or to an error), and a run whose
\* script compiled ends.
C29_CommandLoopTerminates ==
  /\ (pc = "exec") ~> (pc = "read" \/ pc = "error")
  /\ (pc = "main") ~> (pc \in {"done", "error"})

\* ------------------------------------------------------------------------
\* The output does not depend on the buffering options
\* ------------------------------------------------------------------------

\* the command loop of one cycle, run to its end
RECURSIVE RunCommands(_, _, _, _, _)
RunCommands(p, labs, out, idx, cont) ==
  IF ~(cont /\ idx < Len(commands))
  THEN [ps |-> p, labels |-> labs, output |-> out]
  ELSE LET r == execute_command(p, commands[idx + 1], labs, out)
       IN  IF r.err # ""
           THEN [ps |-> r.ps, labels |-> r.labels, output |-> r.output]
           ELSE RunCommands(r.ps, r.labels, r.output,
                            next_cmd_idx(commands[idx + 1], idx, r.labels),
                            r.cont)

\* the cycles of one stream from the offset at, every output line appended
\* to one buffer
RECURSIVE RunLines(_, _, _, _, _)
RunLines(text, at, p, labs, out) ==
  LET l == readline(text, at)
      p1 == [p EXCEPT !.pattern_space = str_rstrip(l, {NL}),
                      !.line_num = p.line_num + 1,
                      !.last_line_num = p.line_num + 1]
      c == RunCommands(p1, labs, out, 0, TRUE)
  IN  IF l = << >>
      THEN [ps |-> p, labels |-> labs, output |-> out]
      ELSE RunLines(text, at + Len(l), c.ps, c.labels,
                    auto_print(options.quiet, c.ps.pattern_space, c.output))

\* the buffer after the given streams, with neither unbuffered nor separate
RECURSIVE RunStreams(_, _, _, _)
RunStreams(streams, p, labs, out) ==
  IF streams = << >> THEN out
  ELSE LET r == RunLines(fs[Head(streams)], 0, [p EXCEPT !.line_num = 0],
                         labs, out)
       IN  RunStreams(Tail(streams), r.ps, r.labels, r.output)

BufferedOutput == RunStreams(gen_streams, SedPatternSpace, NoArgs, << >>)

\* C30: when the generator has ended without an error, the lines it has
\* yielded are, in content and order, the lines the same run appends to its
\* buffer with unbuffered and separate off, whatever the two options are.
C30_OutputIndependentOfBuffering ==
  pc = "gen_done" => yielded = BufferedOutput

C30_Witness ==
  /\ pc = "gen_done"
  /\ options.unbuffered /\ options.separate /\ ~options.quiet
  /\ Len(gen_streams) = 2
  /\ script_src = Script_HoldAppendExchange
  /\ Len(yielded) = 4

====
